---- MODULE Spec2Model ----
EXTENDS Integers, Sequences, FiniteSets, TLC

(***************************************************************************)
(* Model of the payment customization sample:                              *)
(*   - the payment customization function (the Decision Function), and    *)
(*   - the POST /api/paymentCustomization/create handler of web/index.js. *)
(*                                                                         *)
(* A JavaScript string is a sequence of one-character strings.  A         *)
(* JavaScript number is a record [nan, m, e] standing for m * 10^e.       *)
(***************************************************************************)

VARIABLES input, fnPc, fnResult,
          reqPc, payload, customizationId, createResponse, metafieldResponse,
          issued, sent, store, setCalls, nextId, nreq

fnVars  == <<input, fnPc, fnResult>>
apiVars == <<reqPc, payload, customizationId, createResponse, metafieldResponse,
             issued, sent, store, setCalls, nextId, nreq>>
vars    == <<fnVars, apiVars>>

(***************************** bounds **************************************)

MaxMethods == 2

MaxRequests == 2

(************************ JavaScript values ********************************)

Undefined == [t |-> "undefined", s |-> <<>>, n |-> 0]

Null == [t |-> "null", s |-> <<>>, n |-> 0]

JsString(str) == [t |-> "string", s |-> str, n |-> 0]

JsNumber(k) == [t |-> "number", s |-> <<>>, n |-> k]

\* ToBoolean of a scalar: "", 0, null and undefined are falsy.
Truthy(v) ==
  CASE v.t = "string" -> v.s # <<>>
    [] v.t = "number" -> v.n # 0
    [] OTHER -> FALSE

NaN == [nan |-> TRUE, m |-> 0, e |-> 0]

Num(k) == [nan |-> FALSE, m |-> k, e |-> 0]

Min(a, b) == IF a < b THEN a ELSE b

\* The relational operator > on numbers; any comparison with NaN is false.
GreaterThan(a, b) ==
  IF a.nan \/ b.nan THEN FALSE
  ELSE LET lo == Min(a.e, b.e)
       IN  a.m * 10^(a.e - lo) > b.m * 10^(b.e - lo)

(***************************** parseFloat **********************************)

Digits == {"0", "1", "2", "3", "4", "5", "6", "7", "8", "9"}

DigitVal(c) ==
  CASE c = "0" -> 0 [] c = "1" -> 1 [] c = "2" -> 2 [] c = "3" -> 3
    [] c = "4" -> 4 [] c = "5" -> 5 [] c = "6" -> 6 [] c = "7" -> 7
    [] c = "8" -> 8 [] c = "9" -> 9

RECURSIVE SkipWhiteSpace(_, _)
SkipWhiteSpace(str, i) ==
  IF i <= Len(str) /\ str[i] = " " THEN SkipWhiteSpace(str, i + 1) ELSE i

\* Number of consecutive decimal digits of str from position i on.
RECURSIVE DigitRun(_, _)
DigitRun(str, i) ==
  IF i <= Len(str) /\ str[i] \in Digits THEN 1 + DigitRun(str, i + 1) ELSE 0

\* Value of the k decimal digits of str that start at position i.
RECURSIVE DigitsValue(_, _, _)
DigitsValue(str, i, k) ==
  IF k = 0 THEN 0
  ELSE DigitsValue(str, i, k - 1) * 10 + DigitVal(str[i + k - 1])

\* parseFloat: the longest prefix (after leading white space) that is a
\* decimal literal  [+-] digits [. digits] [e [+-] digits] ; NaN when there
\* is none.  The literal Infinity is not formed by the strings considered.
parseFloat(str) ==
  LET start  == SkipWhiteSpace(str, 1)
      signed == start <= Len(str) /\ str[start] \in {"+", "-"}
      neg    == signed /\ str[start] = "-"
      p      == IF signed THEN start + 1 ELSE start
      ni     == DigitRun(str, p)
      hasDot == p + ni <= Len(str) /\ str[p + ni] = "."
      nf     == IF hasDot THEN DigitRun(str, p + ni + 1) ELSE 0
      q      == p + ni + (IF hasDot THEN 1 + nf ELSE 0)
      hasE   == q <= Len(str) /\ str[q] \in {"e", "E"}
      esign  == hasE /\ q + 1 <= Len(str) /\ str[q + 1] \in {"+", "-"}
      eneg   == esign /\ str[q + 1] = "-"
      ep     == IF esign THEN q + 2 ELSE q + 1
      ne     == IF hasE THEN DigitRun(str, ep) ELSE 0
      ev     == IF ne = 0 THEN 0
                ELSE IF eneg THEN 0 - DigitsValue(str, ep, ne)
                ELSE DigitsValue(str, ep, ne)
      mant   == DigitsValue(str, p, ni) * 10^nf + DigitsValue(str, p + ni + 1, nf)
  IN  IF ni + nf = 0 THEN NaN
      ELSE [nan |-> FALSE, m |-> IF neg THEN 0 - mant ELSE mant, e |-> ev - nf]

(************************* String.prototype.includes ***********************)

\* str has the characters of sub at position i.
MatchesAt(str, sub, i) ==
  /\ i + Len(sub) - 1 <= Len(str)
  /\ \A k \in 1..Len(sub) : str[i + k - 1] = sub[k]

includes(str, sub) == \E i \in 1..(Len(str) + 1) : MatchesAt(str, sub, i)

(******************************* JSON ***************************************)

\* A JSON text is a sequence of lexical tokens; the texts considered hold
\* scalars and objects whose member values are scalars.
Tok(kind) == [k |-> kind, s |-> <<>>, n |-> 0]

StrTok(str) == [k |-> "str", s |-> str, n |-> 0]

NumTok(i) == [k |-> "num", s |-> <<>>, n |-> i]

IsScalarTok(tok) == tok.k \in {"str", "num", "null"}

ScalarOf(tok) ==
  CASE tok.k = "str" -> JsString(tok.s)
    [] tok.k = "num" -> JsNumber(tok.n)
    [] tok.k = "null" -> Null

SyntaxError == [err |-> TRUE, t |-> "undefined", members |-> <<>>]

\* Members  key : value (, key : value)* }  from position i to the end.
RECURSIVE ParseMembers(_, _)
ParseMembers(toks, i) ==
  IF ~( /\ i + 3 <= Len(toks)
        /\ toks[i].k = "str"
        /\ toks[i + 1].k = ":"
        /\ IsScalarTok(toks[i + 2]) )
  THEN SyntaxError
  ELSE LET member == [key |-> toks[i].s, val |-> ScalarOf(toks[i + 2])]
       IN  IF toks[i + 3].k = "}"
           THEN IF i + 3 = Len(toks)
                THEN [err |-> FALSE, t |-> "object", members |-> <<member>>]
                ELSE SyntaxError
           ELSE IF toks[i + 3].k = ","
           THEN LET rest == ParseMembers(toks, i + 4)
                IN  IF rest.err THEN SyntaxError
                    ELSE [err |-> FALSE, t |-> "object",
                          members |-> <<member>> \o rest.members]
           ELSE SyntaxError

\* JSON.parse: a value [err, t, members], err when the text is not JSON.
\* A scalar text yields a value of its type without members.
JSONparse(toks) ==
  IF Len(toks) = 0 THEN SyntaxError
  ELSE IF IsScalarTok(toks[1])
  THEN IF Len(toks) = 1
       THEN [err |-> FALSE, t |-> ScalarOf(toks[1]).t, members |-> <<>>]
       ELSE SyntaxError
  ELSE IF toks[1].k = "{"
  THEN IF Len(toks) = 2 /\ toks[2].k = "}"
       THEN [err |-> FALSE, t |-> "object", members |-> <<>>]
       ELSE ParseMembers(toks, 2)
  ELSE SyntaxError

\* Property read value.key; for a repeated key the last member wins.
RECURSIVE GetMember(_, _, _)
GetMember(members, key, i) ==
  IF i = 0 THEN Undefined
  ELSE IF members[i].key = key THEN members[i].val
  ELSE GetMember(members, key, i - 1)

Get(value, key) == GetMember(value.members, key, Len(value.members))

\* JSON.stringify of an object literal given as its members in order:
\* a member whose value is undefined is left out.
RECURSIVE StringifyMembers(_, _)
StringifyMembers(members, first) ==
  IF members = <<>> THEN <<>>
  ELSE LET hd == Head(members)
           tl == Tail(members)
       IN  IF hd.val.t = "undefined" THEN StringifyMembers(tl, first)
           ELSE (IF first THEN <<>> ELSE <<Tok(",")>>)
                \o <<StrTok(hd.key), Tok(":"),
                     CASE hd.val.t = "string" -> StrTok(hd.val.s)
                       [] hd.val.t = "number" -> NumTok(hd.val.n)
                       [] hd.val.t = "null" -> Tok("null")>>
                \o StringifyMembers(tl, FALSE)

JSONstringify(members) ==
  <<Tok("{")>> \o StringifyMembers(members, TRUE) \o <<Tok("}")>>

paymentMethodNameKey ==
  <<"p","a","y","m","e","n","t","M","e","t","h","o","d","N","a","m","e">>

cartTotalKey == <<"c","a","r","t","T","o","t","a","l">>

(******************** the payment customization function ******************)

NO_CHANGES == [threw |-> "none", operations |-> <<>>]

Throw(error) == [threw |-> error, operations |-> <<>>]

EmptyObjectText == <<Tok("{"), Tok("}")>>

\* Variant: a built-in configuration stands in for a missing metafield.
MetafieldTextOrBuiltIn(in) ==
  IF in.metafield.present THEN in.metafield.value
  ELSE <<Tok("{"), StrTok(paymentMethodNameKey), Tok(":"),
         StrTok(<<"C", "O", "D">>), Tok(","),
         StrTok(cartTotalKey), Tok(":"), NumTok(100), Tok("}")>>

\* input?.paymentCustomization?.metafield?.value ?? "{}"
MetafieldText(in) ==
  IF in.metafield.present THEN in.metafield.value ELSE EmptyObjectText

\* Variant: absent only when both settings are missing.
ConfigurationAbsentBoth(configuration) ==
  ~Truthy(configuration.paymentMethodName) /\ ~Truthy(configuration.cartTotal)

\* !configuration.paymentMethodName || !configuration.cartTotal
ConfigurationAbsent(configuration) ==
  ~Truthy(configuration.paymentMethodName) \/ ~Truthy(configuration.cartTotal)

\* Variant: no default, a missing amount is converted to "undefined".
AmountWithoutDefault(amount) ==
  IF amount.present THEN amount.s
  ELSE <<"u", "n", "d", "e", "f", "i", "n", "e", "d">>

\* amount ?? "0.0"
AmountOrDefault(amount) ==
  IF amount.present THEN amount.s ELSE <<"0", ".", "0">>

\* The numeric value of a configured cartTotal (a JSON number).
ToNumber(v) == CASE v.t = "number" -> Num(v.n)

\* Variant: the hardcoded threshold instead of the configured one.
CartTotalAboveHardcoded(cartTotal, configuration) ==
  GreaterThan(cartTotal, Num(100))

\* cartTotal > configuration.cartTotal
CartTotalTooHigh(cartTotal, configuration) ==
  GreaterThan(cartTotal, ToNumber(configuration.cartTotal))

ToLowerCase(str) ==
  [i \in 1..Len(str) |->
     CASE str[i] = "C" -> "c" [] str[i] = "O" -> "o" [] str[i] = "D" -> "d"
       [] OTHER -> str[i]]

\* Variant: the names are compared without regard to case.
RECURSIVE FindFromIgnoringCase(_, _, _)
FindFromIgnoringCase(methods, name, i) ==
  IF i > Len(methods) THEN 0
  ELSE IF includes(ToLowerCase(methods[i].name), ToLowerCase(name)) THEN i
  ELSE FindFromIgnoringCase(methods, name, i + 1)

\* Variant: the last method that satisfies the predicate.
RECURSIVE FindLastFrom(_, _, _)
FindLastFrom(methods, name, i) ==
  IF i = 0 THEN 0
  ELSE IF includes(methods[i].name, name) THEN i
  ELSE FindLastFrom(methods, name, i - 1)

findLast(methods, name) == FindLastFrom(methods, name, Len(methods))

\* Array.prototype.find with the predicate
\* method => method.name.includes(name): the index of the first method that
\* satisfies it, 0 when there is none.
RECURSIVE FindFrom(_, _, _)
FindFrom(methods, name, i) ==
  IF i > Len(methods) THEN 0
  ELSE IF includes(methods[i].name, name) THEN i
  ELSE FindFrom(methods, name, i + 1)

find(methods, name) == FindFrom(methods, name, 1)

MoveOperation(method) == [index |-> 0, paymentMethodId |-> method.id]

\* The default export: the result [threw, operations] for an input
\* [metafield, cart, paymentMethods].  Reading a property of null or
\* undefined throws a TypeError.
Function(in) ==
  LET parsed == JSONparse(MetafieldText(in))
  IN  IF parsed.err THEN Throw("SyntaxError")
      ELSE IF parsed.t = "null" THEN Throw("TypeError")
      ELSE
        LET configuration ==
              [paymentMethodName |-> Get(parsed, paymentMethodNameKey),
               cartTotal |-> Get(parsed, cartTotalKey)]
        IN  IF ConfigurationAbsent(configuration) THEN NO_CHANGES
            ELSE IF ~in.cart.present THEN Throw("TypeError")
            ELSE
              LET cartTotal == parseFloat(AmountOrDefault(in.cart.amount))
              IN  IF CartTotalTooHigh(cartTotal, configuration) THEN NO_CHANGES
                  ELSE IF ~in.paymentMethods.present THEN Throw("TypeError")
                  ELSE
                    LET methods == in.paymentMethods.list
                        found == find(methods,
                                      configuration.paymentMethodName.s)
                    IN  IF found = 0 THEN NO_CHANGES
                        ELSE [threw |-> "none",
                              operations |-> <<MoveOperation(methods[found])>>]

(**************************** function inputs ******************************)

COD == <<"C", "O", "D">>

cod == <<"c", "o", "d">>

ConfiguredNames == {<<>>, COD, cod}

ConfiguredTotals == {0 - 5, 0, 100}

\* What the Admin Backend writes, for every payload, and other texts.
MetafieldValues ==
  { JSONstringify(<<[key |-> paymentMethodNameKey, val |-> a],
                    [key |-> cartTotalKey, val |-> b]>>) :
      a \in {JsString(x) : x \in ConfiguredNames} \cup {Undefined},
      b \in {JsNumber(x) : x \in ConfiguredTotals} \cup {Undefined, Null} }
  \cup { <<>>, <<Tok("{")>>, <<Tok("null")>>, <<NumTok(5)>>,
         <<Tok("{"), StrTok(paymentMethodNameKey), Tok(":"), StrTok(COD)>>,
         <<Tok("{"), StrTok(cartTotalKey), Tok(":"), NumTok(100), Tok(","),
           StrTok(paymentMethodNameKey), Tok(":"), StrTok(COD), Tok("}")>> }

Metafields ==
  {[present |-> FALSE, value |-> <<>>]}
  \cup {[present |-> TRUE, value |-> v] : v \in MetafieldValues}

AmountStrings ==
  { <<"0", ".", "0">>, <<"5", "0", ".", "0", "0">>,
    <<"1", "0", "0", ".", "0", "0">>, <<"1", "0", "0">>,
    <<"1", "0", "0", ".", "0", "1">>, <<"1", "5", "0", ".", "0", "0">>,
    <<"9", "9", ".", "9", "9">>, <<"1", "e", "2">>, <<"1", "e", "3">>,
    <<"1", "0", "0", "0", "e", "-", "1">>, <<".", "5">>, <<"1", "0", "0", ".">>,
    <<" ", "5", "0">>, <<"1", "2", "a", "b", "c">>, <<"-", "5">>,
    <<"-", "5", ".", "5">>, <<"-", "1">>, <<>>, <<"a", "b", "c">>, <<".">>,
    <<"-">>, <<"e", "5">> }

\* cart.cost.totalAmount.amount: a string, or missing; or no cart at all.
Carts ==
  {[present |-> FALSE, amount |-> [present |-> FALSE, s |-> <<>>]],
   [present |-> TRUE, amount |-> [present |-> FALSE, s |-> <<>>]]}
  \cup {[present |-> TRUE, amount |-> [present |-> TRUE, s |-> a]] :
          a \in AmountStrings}

MethodNames ==
  { <<"C", "a", "r", "d">>, <<"(", "C", "O", "D", ")">>, COD, cod }

MethodIds == 1..MaxMethods

\* Payment methods in host order; the platform's ids are distinct.
MethodLists ==
  UNION { { l \in [1..k -> [id : MethodIds, name : MethodNames]] :
              \A i, j \in 1..k : i # j => l[i].id # l[j].id } :
          k \in 0..MaxMethods }

PaymentMethods ==
  {[present |-> FALSE, list |-> <<>>]}
  \cup {[present |-> TRUE, list |-> l] : l \in MethodLists}

Inputs == [metafield : Metafields, cart : Carts, paymentMethods : PaymentMethods]

(************************** state before a run *****************************)

Pending == [threw |-> "pending", operations |-> <<>>]

NoInput ==
  [metafield |-> [present |-> FALSE, value |-> <<>>],
   cart |-> [present |-> FALSE, amount |-> [present |-> FALSE, s |-> <<>>]],
   paymentMethods |-> [present |-> FALSE, list |-> <<>>]]

(****************************** Admin Backend ******************************)

NoResponse ==
  [t |-> "none", paymentCustomization |-> 0,
   userErrors |-> [t |-> "array", items |-> <<>>], applied |-> FALSE, raw |-> 0]

Array(items) == [t |-> "array", items |-> items]

\* A JavaScript object that is not an array: it has no length property.
Object == [t |-> "object", items |-> <<>>]

UserErrorLists ==
  { << <<"b", "a", "d">> >>, << <<"n", "o">>, <<"i", "d">> >> }

RawResponses == {1, 2}

Payloads ==
  [functionId : {7},
   paymentMethod : {Undefined, JsString(<<>>), JsString(COD)},
   cartTotal : {Undefined, JsNumber(0), JsNumber(100)}]

\* What paymentCustomizationCreate can answer: the record created under a
\* fresh id, user errors and no record, a body without a record, or an
\* error thrown by the client.
CreateOutcomes(id) ==
  { [NoResponse EXCEPT !.t = "returned", !.paymentCustomization = id,
                       !.applied = TRUE],
    [NoResponse EXCEPT !.t = "returned"],
    [NoResponse EXCEPT !.t = "Error"] }
  \cup { [NoResponse EXCEPT !.t = "returned", !.userErrors = Array(e)] :
           e \in UserErrorLists }
  \cup { [NoResponse EXCEPT !.t = "GraphqlQueryError", !.raw = r] :
           r \in RawResponses }

\* What metafieldsSet can answer: the metafield written, user errors and
\* nothing written, or an error thrown by the client and nothing written.
MetafieldOutcomes ==
  { [NoResponse EXCEPT !.t = "returned", !.applied = TRUE],
    [NoResponse EXCEPT !.t = "Error"] }
  \cup { [NoResponse EXCEPT !.t = "returned", !.userErrors = Array(e)] :
           e \in UserErrorLists }
  \cup { [NoResponse EXCEPT !.t = "GraphqlQueryError", !.raw = r] :
           r \in RawResponses }

\* userErrors.map((error) => error.message).join(' ')
RECURSIVE JoinMessages(_)
JoinMessages(items) ==
  IF items = <<>> THEN <<>>
  ELSE IF Len(items) = 1 THEN items[1]
  ELSE items[1] \o <<" ">> \o JoinMessages(Tail(items))

ErrorMessage(text) == [status |-> 500, kind |-> "message", text |-> text, raw |-> 0]

\* Variant: the thrown error answered as a user error message.
ErrorResponseAsMessage(raw) ==
  [status |-> 500, kind |-> "message", text |-> <<>>, raw |-> 0]

ErrorResponse(raw) == [status |-> 500, kind |-> "response", text |-> <<>>, raw |-> raw]

Ok == [status |-> 200, kind |-> "empty", text |-> <<>>, raw |-> 0]

\* handleUserError: the responses it sends for its argument; it returns
\* true exactly when it sends one.  userErrors.length > 0 is false for a
\* value without a length.
handleUserError(userErrors) ==
  IF userErrors.t = "array" /\ Len(userErrors.items) > 0
  THEN <<ErrorMessage(JoinMessages(userErrors.items))>>
  ELSE <<>>

CreateMutation(p) ==
  [op |-> "paymentCustomizationCreate", functionId |-> p.functionId,
   title |-> <<p.paymentMethod, p.cartTotal>>, enabled |-> TRUE,
   ownerId |-> 0, value |-> <<>>]

ConfigurationValue(p) ==
  JSONstringify(<<[key |-> paymentMethodNameKey, val |-> p.paymentMethod],
                  [key |-> cartTotalKey, val |-> p.cartTotal]>>)

\* Variant: the metafield is set on the function instead of the record.
MetafieldsSetOnFunction(id, p) ==
  [op |-> "metafieldsSet", functionId |-> 0,
   title |-> <<Undefined, Undefined>>, enabled |-> FALSE,
   ownerId |-> p.functionId, value |-> ConfigurationValue(p)]

MetafieldsSetMutation(id, p) ==
  [op |-> "metafieldsSet", functionId |-> 0,
   title |-> <<Undefined, Undefined>>, enabled |-> FALSE,
   ownerId |-> id, value |-> ConfigurationValue(p)]

\* let metafieldResult = ...; handleUserError(metafieldResult, res)
MetafieldUserErrors(response) == Object

\* The handler up to its first await: it issues paymentCustomizationCreate.
Receive(p) ==
  /\ reqPc \in {"idle", "responded", "rethrown"}
  /\ nreq < MaxRequests
  /\ nreq' = nreq + 1
  /\ payload' = p
  /\ issued' = <<CreateMutation(p)>>
  /\ sent' = <<>>
  /\ customizationId' = 0
  /\ createResponse' = NoResponse
  /\ metafieldResponse' = NoResponse
  /\ reqPc' = "awaitCreate"
  /\ UNCHANGED <<store, setCalls, nextId, fnVars>>

\* The first await resumes with an answer r: the handler answers 500, rethrows, or
\* issues metafieldsSet for the id of the created record.
CreateReturns ==
  \E r \in CreateOutcomes(nextId) :
    /\ reqPc = "awaitCreate"
    /\ createResponse' = r
    /\ IF r.applied
       THEN /\ store' = [i \in DOMAIN store \cup {nextId} |->
                           IF i = nextId THEN [present |-> FALSE, value |-> <<>>]
                           ELSE store[i]]
            /\ nextId' = nextId + 1
       ELSE UNCHANGED <<store, nextId>>
    /\ CASE r.t = "GraphqlQueryError" ->
              /\ sent' = Append(sent, ErrorResponse(r.raw))
              /\ reqPc' = "responded"
              /\ UNCHANGED <<issued, setCalls, customizationId>>
         [] r.t = "Error" ->
              /\ reqPc' = "rethrown"
              /\ UNCHANGED <<sent, issued, setCalls, customizationId>>
         [] r.t = "returned" ->
              IF handleUserError(r.userErrors) # <<>>
              THEN /\ sent' = sent \o handleUserError(r.userErrors)
                   /\ reqPc' = "responded"
                   /\ UNCHANGED <<issued, setCalls, customizationId>>
              ELSE IF r.paymentCustomization = 0
              THEN /\ reqPc' = "rethrown"
                   /\ UNCHANGED <<sent, issued, setCalls, customizationId>>
              ELSE /\ customizationId' = r.paymentCustomization
                   /\ issued' = Append(issued,
                                  MetafieldsSetMutation(r.paymentCustomization, payload))
                   /\ setCalls' = setCalls \cup
                        {[ownerId |-> r.paymentCustomization,
                          paymentMethod |-> payload.paymentMethod,
                          cartTotal |-> payload.cartTotal]}
                   /\ reqPc' = "awaitMetafield"
                   /\ UNCHANGED sent
    /\ UNCHANGED <<payload, metafieldResponse, nreq, fnVars>>

\* The second await resumes with r: the handler answers 500 or 200, or
\* rethrows.
MetafieldReturns(r) ==
  /\ reqPc = "awaitMetafield"
  /\ metafieldResponse' = r
  /\ IF r.applied /\ issued[Len(issued)].ownerId \in DOMAIN store
     THEN store' = [store EXCEPT ![issued[Len(issued)].ownerId] =
                      [present |-> TRUE, value |-> issued[Len(issued)].value]]
     ELSE UNCHANGED store
  /\ CASE r.t = "GraphqlQueryError" ->
            /\ sent' = Append(sent, ErrorResponse(r.raw))
            /\ reqPc' = "responded"
       [] r.t = "Error" ->
            /\ reqPc' = "rethrown"
            /\ UNCHANGED sent
       [] r.t = "returned" ->
            IF handleUserError(MetafieldUserErrors(r)) # <<>>
            THEN /\ sent' = sent \o handleUserError(MetafieldUserErrors(r))
                 /\ reqPc' = "responded"
            ELSE /\ sent' = Append(sent, Ok)
                 /\ reqPc' = "responded"
  /\ UNCHANGED <<payload, customizationId, createResponse, issued, setCalls,
                 nextId, nreq, fnVars>>

ApiInit ==
  /\ reqPc = "idle"
  /\ payload = [functionId |-> 7, paymentMethod |-> Undefined,
                cartTotal |-> Undefined]
  /\ customizationId = 0
  /\ createResponse = NoResponse
  /\ metafieldResponse = NoResponse
  /\ issued = <<>>
  /\ sent = <<>>
  /\ store = [i \in {} |-> [present |-> FALSE, value |-> <<>>]]
  /\ setCalls = {}
  /\ nextId = 1
  /\ nreq = 0

(****************************** specifications *****************************)

\* One invocation of the function by the host, on input.
Run ==
  /\ fnPc = "ready"
  /\ fnResult' = Function(input)
  /\ fnPc' = IF Function(input).threw = "none" THEN "returned" ELSE "threw"
  /\ UNCHANGED <<input, apiVars>>

InitFn ==
  /\ input \in Inputs
  /\ fnPc = "ready"
  /\ fnResult = Pending
  /\ ApiInit

NextFn == Run

SpecFn == InitFn /\ [][NextFn]_vars

InitApi ==
  /\ input = NoInput
  /\ fnPc = "idle"
  /\ fnResult = Pending
  /\ ApiInit

NextApi ==
  \/ \E p \in Payloads : Receive(p)
  \/ CreateReturns
  \/ \E r \in MetafieldOutcomes : MetafieldReturns(r)

SpecApi == InitApi /\ [][NextApi]_vars

(************************ vocabulary of the properties **********************)

\* sub occurs in str as a contiguous, case-sensitive run of characters.
IsSubstring(sub, str) ==
  \E i \in 0..Len(str) :
    /\ i + Len(sub) <= Len(str)
    /\ SubSeq(str, i + 1, i + Len(sub)) = sub

ParsedOf(in) == JSONparse(MetafieldText(in))

ConfiguredName(in) == Get(ParsedOf(in), paymentMethodNameKey)

ConfiguredTotal(in) == Get(ParsedOf(in), cartTotalKey)

\* The metafield holds an object with a non-empty paymentMethodName and a
\* non-zero cartTotal.
ConfigurationPresent(in) ==
  /\ in.metafield.present
  /\ ~ParsedOf(in).err
  /\ ParsedOf(in).t = "object"
  /\ ConfiguredName(in).t = "string" /\ ConfiguredName(in).s # <<>>
  /\ ConfiguredTotal(in).t = "number" /\ ConfiguredTotal(in).n # 0

\* No metafield, or an object without a truthy paymentMethodName or
\* without a truthy cartTotal ("{}" included).
ConfigurationMissing(in) ==
  \/ ~in.metafield.present
  \/ /\ ~ParsedOf(in).err
     /\ ParsedOf(in).t = "object"
     /\ \/ ConfiguredName(in).t \in {"undefined", "null"}
        \/ ConfiguredName(in).t = "string" /\ ConfiguredName(in).s = <<>>
        \/ ConfiguredTotal(in).t \in {"undefined", "null"}
        \/ ConfiguredTotal(in).t = "number" /\ ConfiguredTotal(in).n = 0

AmountMissing(in) == in.cart.present /\ ~in.cart.amount.present

AmountUnparseable(in) ==
  in.cart.present /\ in.cart.amount.present /\ parseFloat(in.cart.amount.s).nan

\* The cart total as a number: the parsed amount, 0 for a missing amount.
CartTotalOf(in) ==
  IF in.cart.amount.present THEN parseFloat(in.cart.amount.s) ELSE Num(0)

Threshold(in) == Num(ConfiguredTotal(in).n)

Matching(in) ==
  { i \in 1..Len(in.paymentMethods.list) :
      IsSubstring(ConfiguredName(in).s, in.paymentMethods.list[i].name) }

FirstMatching(in) == CHOOSE i \in Matching(in) : \A j \in Matching(in) : i <= j

HasMove(result) == result.threw = "none" /\ result.operations # <<>>

WithAmount(in, str) ==
  [in EXCEPT !.cart = [present |-> TRUE,
                       amount |-> [present |-> TRUE, s |-> str]]]

(******************************* properties ********************************)

\* C1: with a present configuration, a cart total less than or equal to
\* the threshold and at least one payment method whose name contains the
\* configured name, the result is exactly one move to index 0 of the first
\* such method in input order.
C1_FirstMatchMoved ==
  ( /\ fnPc # "ready"
    /\ ConfigurationPresent(input)
    /\ input.cart.present
    /\ ~CartTotalOf(input).nan
    /\ ~GreaterThan(CartTotalOf(input), Threshold(input))
    /\ input.paymentMethods.present
    /\ Matching(input) # {} )
  => fnResult =
       [threw |-> "none",
        operations |->
          <<[index |-> 0,
             paymentMethodId |->
               input.paymentMethods.list[FirstMatching(input)].id]>>]

\* A run at the boundary (cart total equal to the threshold) with two
\* matching methods of which the first was moved.
C1_Witness ==
  /\ fnPc = "returned"
  /\ ConfigurationPresent(input)
  /\ input.cart.present /\ input.cart.amount.present
  /\ input.cart.amount.s = <<"1", "0", "0", ".", "0", "0">>
  /\ ConfiguredTotal(input).n = 100
  /\ input.paymentMethods.present
  /\ Cardinality(Matching(input)) = 2
  /\ fnResult.operations # <<>>
  /\ fnResult.operations[1].paymentMethodId = input.paymentMethods.list[1].id

\* C2: with a present configuration and a cart total strictly greater than
\* the threshold, the operations list is empty whatever the payment
\* methods are.
C2_AboveThresholdEmpty ==
  ( /\ fnPc # "ready"
    /\ ConfigurationPresent(input)
    /\ input.cart.present
    /\ GreaterThan(CartTotalOf(input), Threshold(input)) )
  => fnResult = NO_CHANGES

C2_Witness ==
  /\ fnPc = "returned"
  /\ ConfigurationPresent(input)
  /\ input.cart.present
  /\ GreaterThan(CartTotalOf(input), Threshold(input))
  /\ input.paymentMethods.present
  /\ Matching(input) # {}
  /\ fnResult = NO_CHANGES

\* C3: with an absent configuration the function returns the empty
\* operations list for every cart and every payment method list, also for
\* an input without cart and without paymentMethods.
C3_AbsentConfigurationEmpty ==
  (fnPc # "ready" /\ ConfigurationMissing(input))
  => (fnPc = "returned" /\ fnResult = NO_CHANGES)

C3_Witness ==
  /\ fnPc = "returned"
  /\ input.metafield.present
  /\ ConfiguredName(input) = JsString(COD)
  /\ ConfiguredTotal(input) = JsNumber(0)
  /\ ~input.cart.present
  /\ ~input.paymentMethods.present
  /\ fnResult = NO_CHANGES

\* C4: the function never raises; every failure path ends in a result with
\* an empty operations list.
C4_NeverRaises == fnPc # "threw"

\* C8 as stated: with a present configuration, a missing or unparseable
\* amount gives the result of the same input with amount "0.0", for every
\* configuration.
C8_MissingOrUnparseableIsZero ==
  ( /\ fnPc # "ready"
    /\ ConfigurationPresent(input)
    /\ AmountMissing(input) \/ AmountUnparseable(input) )
  => fnResult = Function(WithAmount(input, <<"0", ".", "0">>))

\* C8 amended: a missing amount gives the result of amount "0.0" for every
\* present configuration; an unparseable amount gives it when the
\* configured cartTotal is positive.
C8_MissingIsZeroUnparseableBelowPositive ==
  ( /\ fnPc # "ready"
    /\ ConfigurationPresent(input)
    /\ \/ AmountMissing(input)
       \/ AmountUnparseable(input) /\ ConfiguredTotal(input).n > 0 )
  => fnResult = Function(WithAmount(input, <<"0", ".", "0">>))

\* A missing amount under a negative threshold: no move, as for "0.0".
C8_Witness ==
  /\ fnPc = "returned"
  /\ ConfigurationPresent(input)
  /\ ConfiguredTotal(input).n < 0
  /\ AmountMissing(input)
  /\ input.paymentMethods.present
  /\ Matching(input) # {}
  /\ fnResult = NO_CHANGES

\* C9: a returned operations list has at most one entry, and an entry is a
\* move to index 0 of a payment method of the input whose name contains the
\* configured name as a case-sensitive substring; without such a method the
\* list is empty.
C9_AtMostOneMoveOfAMatch ==
  fnPc = "returned" =>
    /\ Len(fnResult.operations) <= 1
    /\ \A k \in 1..Len(fnResult.operations) :
         /\ fnResult.operations[k].index = 0
         /\ ConfigurationPresent(input)
         /\ input.paymentMethods.present
         /\ \E i \in Matching(input) :
              input.paymentMethods.list[i].id =
                fnResult.operations[k].paymentMethodId
    /\ ( /\ ConfigurationPresent(input)
         /\ input.paymentMethods.present
         /\ Matching(input) = {} ) => fnResult.operations = <<>>

\* The configured name occurs only in another case: nothing is moved.
C9_Witness ==
  /\ fnPc = "returned"
  /\ ConfigurationPresent(input)
  /\ ConfiguredName(input).s = cod
  /\ input.cart.present
  /\ ~GreaterThan(CartTotalOf(input), Threshold(input))
  /\ input.paymentMethods.present
  /\ \E i \in 1..Len(input.paymentMethods.list) :
       input.paymentMethods.list[i].name = COD
  /\ Matching(input) = {}
  /\ fnResult = NO_CHANGES

(******************* properties of the Admin Backend ***********************)

HasUserErrors(response) ==
  response.t = "returned" /\ response.userErrors.items # <<>>

SentOk == \E k \in 1..Len(sent) : sent[k].status = 200

SetIssued == \E k \in 1..Len(issued) : issued[k].op = "metafieldsSet"

\* C5: user errors of either mutation are answered with HTTP 500 and the
\* joined messages and never with HTTP 200; HTTP 200 is sent only when both
\* mutations returned without user errors.
C5_UserErrorsAnswered500 ==
  /\ HasUserErrors(createResponse) =>
       sent = <<ErrorMessage(JoinMessages(createResponse.userErrors.items))>>
  /\ HasUserErrors(metafieldResponse) =>
       sent = <<ErrorMessage(JoinMessages(metafieldResponse.userErrors.items))>>
  /\ SentOk =>
       /\ createResponse.t = "returned" /\ ~HasUserErrors(createResponse)
       /\ metafieldResponse.t = "returned" /\ ~HasUserErrors(metafieldResponse)

\* C6: metafieldsSet is issued only after paymentCustomizationCreate has
\* returned without user errors and without throwing, for the id that call
\* returned; after a failed create it is never issued.
C6_SetOnlyAfterCreate ==
  /\ \A k \in 1..Len(issued) :
       issued[k].op = "metafieldsSet" =>
         /\ k = 2
         /\ issued[1].op = "paymentCustomizationCreate"
         /\ createResponse.t = "returned"
         /\ ~HasUserErrors(createResponse)
         /\ createResponse.paymentCustomization # 0
         /\ issued[k].ownerId = createResponse.paymentCustomization
  /\ ( \/ createResponse.t \in {"GraphqlQueryError", "Error"}
       \/ HasUserErrors(createResponse) ) => ~SetIssued

\* The second request of a run has issued metafieldsSet for its record.
C6_Witness ==
  /\ reqPc = "awaitMetafield"
  /\ nreq = 2
  /\ Len(issued) = 2
  /\ issued[2].op = "metafieldsSet"
  /\ issued[2].ownerId = 2
  /\ createResponse.paymentCustomization = 2

CreateBodyWithoutRecord ==
  /\ createResponse.t = "returned"
  /\ ~HasUserErrors(createResponse)
  /\ createResponse.paymentCustomization = 0

\* C7: a thrown GraphqlQueryError is answered with exactly one response,
\* HTTP 500 with the error's raw response; anything else thrown is rethrown
\* without a response; the handler never sends more than one response.
C7_ThrownErrors ==
  /\ Len(sent) <= 1
  /\ createResponse.t = "GraphqlQueryError" =>
       /\ reqPc = "responded"
       /\ sent = <<[status |-> 500, kind |-> "response", text |-> <<>>,
                    raw |-> createResponse.raw]>>
  /\ metafieldResponse.t = "GraphqlQueryError" =>
       /\ reqPc = "responded"
       /\ sent = <<[status |-> 500, kind |-> "response", text |-> <<>>,
                    raw |-> metafieldResponse.raw]>>
  /\ ( \/ createResponse.t = "Error"
       \/ metafieldResponse.t = "Error"
       \/ CreateBodyWithoutRecord ) => (reqPc = "rethrown" /\ sent = <<>>)
  /\ reqPc = "rethrown" => sent = <<>>

C7_Witness ==
  /\ reqPc = "responded"
  /\ metafieldResponse.t = "GraphqlQueryError"
  /\ metafieldResponse.raw = 2
  /\ sent = <<[status |-> 500, kind |-> "response", text |-> <<>>, raw |-> 2]>>

\* The checkout snapshots the host is taken to present to a record.
HostSnapshots ==
  [cart : { c \in Carts :
              c.amount.s \in {<<>>, <<"5", "0", ".", "0", "0">>,
                              <<"1", "5", "0", ".", "0", "0">>} },
   paymentMethods : { m \in PaymentMethods : Len(m.list) <= 1 }]

HostInput(id, snapshot) ==
  [metafield |-> store[id], cart |-> snapshot.cart,
   paymentMethods |-> snapshot.paymentMethods]

ConfiguredBy(id) ==
  \E c \in setCalls :
    /\ c.ownerId = id
    /\ c.paymentMethod.t = "string" /\ c.paymentMethod.s # <<>>
    /\ c.cartTotal.t = "number" /\ c.cartTotal.n # 0

SetStepIncomplete ==
  /\ reqPc \in {"responded", "rethrown"}
  /\ createResponse.applied
  /\ metafieldResponse.t \in {"none", "GraphqlQueryError", "Error"}

\* C10: after a request whose create succeeded and whose metafieldsSet
\* threw or was not reached, the record has no configuration metafield; the
\* function returns no operations for a record without metafield, whatever
\* the snapshot; and a record yields a move only after a metafieldsSet call
\* for its id with a non-empty paymentMethod and a non-zero cartTotal.
C10_UnconfiguredRecordInert ==
  /\ SetStepIncomplete => ~store[createResponse.paymentCustomization].present
  /\ \A id \in DOMAIN store :
       \A snapshot \in HostSnapshots :
         /\ ~store[id].present =>
              Function(HostInput(id, snapshot)) = NO_CHANGES
         /\ HasMove(Function(HostInput(id, snapshot))) => ConfiguredBy(id)

\* One record was left without metafield by a throwing metafieldsSet,
\* another one is configured and yields a move.
C10_Witness ==
  /\ SetStepIncomplete
  /\ metafieldResponse.t = "Error"
  /\ ~store[createResponse.paymentCustomization].present
  /\ \E id \in DOMAIN store :
       /\ store[id].present
       /\ \E snapshot \in HostSnapshots :
            HasMove(Function(HostInput(id, snapshot)))

====
